---- MODULE Spec2Model ----
(***************************************************************************)
(* Model of storage-proofs-update/src/gadgets.rs: the circuit gadgets of   *)
(* the sector-update proof.  Every gadget is a synchronous call that       *)
(* appends constraints to the constraint system and returns; a call is one *)
(* action whose inputs are drawn from small sets and whose result (return  *)
(* value or panic, constraints added, cursors left) is kept in the state.  *)
(*                                                                         *)
(* Hash outputs are terms of a free algebra (an injective hash).  Field    *)
(* elements that take part in arithmetic are integers k standing for       *)
(* k mod r; all values met stay far below r/2 in absolute value, so + and  *)
(* * on the representatives are the field operations.  Field elements that *)
(* are bit-decomposed are given by the set of their one-bits.              *)
(***************************************************************************)
EXTENDS Integers, Sequences, FiniteSets, TLC

VARIABLES op, args, ret

vars == <<op, args, ret>>

(***************************************************************************)
(* Bounds of the explored inputs.                                          *)
(***************************************************************************)
MaxBaseLevels == 1
MaxPathLen == 3
MaxBits == 4
MaxApexLen == 8
MaxSetBits == 2
MaxPartition == 1
MaxChallenges == 5
MaxCBits == 3
MaxHs == 2
MaxFr == 2

(***************************************************************************)
(* Program constants.                                                      *)
(***************************************************************************)
USIZE_BITS == 64
U64_BITS == 64
NUM_BITS == 255
CAPACITY == 254
F32_MANTISSA_DIGITS == 24

\* The two builds of the crate: with overflow checks (debug) and without.
Builds == {"debug", "release"}

Arities == {2, 4}

(***************************************************************************)
(* Generic helpers.                                                        *)
(***************************************************************************)
RECURSIVE Pow2(_)
Pow2(n) == IF n = 0 THEN 1 ELSE 2 * Pow2(n - 1)

RECURSIVE SeqsOfLen(_, _)
SeqsOfLen(S, n) ==
    IF n = 0 THEN {<<>>}
    ELSE {Append(s, x) : s \in SeqsOfLen(S, n - 1), x \in S}

RECURSIVE LEValue(_)
LEValue(bits) ==
    IF bits = <<>> THEN 0 ELSE Head(bits) + 2 * LEValue(Tail(bits))

Drop(s, n) == SubSeq(s, n + 1, Len(s))

(***************************************************************************)
(* Field elements of the Merkle gadgets: leaves and hash terms.            *)
(***************************************************************************)
V(x) == [tag |-> "leaf", n |-> x, kids |-> <<>>]

hash_multi_leaf_circuit(preimg, height) ==
    [tag |-> "hash_multi_leaf", n |-> height, kids |-> preimg]

hash2_circuit(a, b) == [tag |-> "hash2", n |-> 0, kids |-> <<a, b>>]

insert(element, index_bits, elements) ==
    LET i == LEValue(index_bits)
    IN  SubSeq(elements, 1, i) \o <<element>> \o Drop(elements, i)

RECURSIVE tz(_)
tz(x) == IF x % 2 = 1 THEN 0 ELSE 1 + tz(x \div 2)

trailing_zeros(x) == IF x = 0 THEN USIZE_BITS ELSE tz(x)

(***************************************************************************)
(* allocated_num_to_allocated_bits                                         *)
(*                                                                         *)
(* A number to decompose is the set of the positions of its one-bits; a    *)
(* coefficient Fr::from(1u64 << i) is a power of two and is kept as its    *)
(* exponent.  The weighted sums met here stay below r (at most NUM_BITS    *)
(* terms below 2^U64_BITS, or the number itself), so comparing them as     *)
(* integers in binary is comparing them in the field.                      *)
(***************************************************************************)
field_into_allocated_bits_le(value) ==
    [i \in 1..NUM_BITS |-> IF (i - 1) \in value THEN 1 ELSE 0]

\* 1u64 << i: the exponent of the resulting power of two.  A shift by
\* U64_BITS or more panics with overflow checks and is masked without.
shl_one_u64(build, i) ==
    IF i < U64_BITS THEN [ok |-> TRUE, exp |-> i]
    ELSE IF build = "debug" THEN [ok |-> FALSE, exp |-> 0]
    ELSE [ok |-> TRUE, exp |-> i % U64_BITS]

\* S + 2^e, for a number S given by the set of its one-bits.
RECURSIVE AddPow2(_, _)
AddPow2(S, e) == IF e \in S THEN AddPow2(S \ {e}, e + 1) ELSE S \cup {e}

\* The sum of 2^exps[i] over the positions i in `ones`, in binary.
RECURSIVE SumPow2(_, _)
SumPow2(exps, ones) ==
    IF ones = {} THEN {}
    ELSE LET i == CHOOSE k \in ones : TRUE
         IN AddPow2(SumPow2(exps, ones \ {i}), exps[i])

WeightedSum(exps, bits) ==
    SumPow2(exps, {i \in 1..Len(bits) : bits[i] = 1})

allocated_num_to_allocated_bits(build, num) ==
    LET bits == field_into_allocated_bits_le(num)
        pow2 == [i \in 1..Len(bits) |-> shl_one_u64(build, i - 1)]
    IN  IF Len(bits) # NUM_BITS
        THEN [result |-> "panic", msg |-> "assertion failed: bits.len()",
              bits |-> <<>>, lc |-> <<>>, constraints |-> 0,
              lhs |-> {}, rhs |-> num]
        ELSE IF \E i \in 1..Len(bits) : ~pow2[i].ok
        THEN [result |-> "panic", msg |-> "attempt to shift left with overflow",
              bits |-> <<>>, lc |-> <<>>, constraints |-> 0,
              lhs |-> {}, rhs |-> num]
        ELSE LET lc == [i \in 1..Len(bits) |-> pow2[i].exp]
             IN [result |-> "Ok", msg |-> "", bits |-> bits, lc |-> lc,
                 constraints |-> 1,
                 lhs |-> WeightedSum(lc, bits), rhs |-> num]

(***************************************************************************)
(* gen_challenge_bits                                                      *)
(***************************************************************************)
RECURSIVE FloorLog2(_)
FloorLog2(n) == IF n <= 1 THEN 0 ELSE 1 + FloorLog2(n \div 2)

\* n as f32: the nearest value with F32_MANTISSA_DIGITS significant bits,
\* ties to even.
usize_as_f32(n) ==
    IF n < Pow2(F32_MANTISSA_DIGITS) THEN n
    ELSE LET s == Pow2(FloorLog2(n) + 1 - F32_MANTISSA_DIGITS)
             m == n \div s
             r == n % s
             up == 2 * r > s \/ (2 * r = s /\ m % 2 = 1)
         IN (IF up THEN m + 1 ELSE m) * s

\* The exponent e with 2^e <= a / b < 2^(e + 1), for a, b >= 1.
RECURSIVE QuotExpUp(_, _, _)
QuotExpUp(a, b, e) == IF b * Pow2(e + 1) <= a THEN QuotExpUp(a, b, e + 1) ELSE e
RECURSIVE QuotExpDown(_, _, _)
QuotExpDown(a, b, k) == IF a * Pow2(k) >= b THEN k ELSE QuotExpDown(a, b, k + 1)

\* Long division: `steps` more quotient bits of rem / den after mantissa m.
RECURSIVE LongDiv(_, _, _, _)
LongDiv(m, rem, den, steps) ==
    IF steps = 0 THEN [m |-> m, rem |-> rem]
    ELSE IF 2 * rem >= den THEN LongDiv(2 * m + 1, 2 * rem - den, den, steps - 1)
    ELSE LongDiv(2 * m, 2 * rem, den, steps - 1)

\* a / b in f32 for integer-valued a >= 0, b >= 1: the correctly rounded
\* quotient m * 2^(e - (F32_MANTISSA_DIGITS - 1)).
f32_div(a, b) ==
    IF a = 0 THEN [m |-> 0, e |-> 0]
    ELSE LET e == IF a >= b THEN QuotExpUp(a, b, 0) ELSE 0 - QuotExpDown(a, b, 1)
             num == IF e >= 0 THEN a ELSE a * Pow2(0 - e)
             den == IF e >= 0 THEN b * Pow2(e) ELSE b
             q == LongDiv(1, num - den, den, F32_MANTISSA_DIGITS - 1)
             up == 2 * q.rem > den \/ (2 * q.rem = den /\ q.m % 2 = 1)
             m == IF up THEN q.m + 1 ELSE q.m
         IN IF m = Pow2(F32_MANTISSA_DIGITS)
            THEN [m |-> Pow2(F32_MANTISSA_DIGITS - 1), e |-> e + 1]
            ELSE [m |-> m, e |-> e]

\* f.ceil() as u64
f32_ceil(f) ==
    IF f.m = 0 THEN 0
    ELSE IF f.e < 0 THEN 1
    ELSE IF f.e >= F32_MANTISSA_DIGITS - 1
    THEN f.m * Pow2(f.e - (F32_MANTISSA_DIGITS - 1))
    ELSE LET d == Pow2(F32_MANTISSA_DIGITS - 1 - f.e) IN (f.m + d - 1) \div d

\* The one-bits of a digest: the hash is external, any fixed function of
\* its two inputs stands for it.
DigestValue(comm_r_new, digest_index) ==
    {i \in 0..(NUM_BITS - 2) : (i + comm_r_new + 3 * digest_index) % 37 = 0}

\* digest_bits.chunks(bits_per_challenge).take(challenges_to_take), each
\* chunk as the range [lo, hi) of digest bit positions it covers.
ChunksTaken(j, bits_per_challenge, challenges_to_take) ==
    LET chunks == (NUM_BITS + bits_per_challenge - 1) \div bits_per_challenge
        n == IF challenges_to_take < chunks THEN challenges_to_take ELSE chunks
    IN  [c \in 1..n |->
            [digest |-> j,
             lo |-> (c - 1) * bits_per_challenge,
             hi |-> IF c * bits_per_challenge < NUM_BITS
                    THEN c * bits_per_challenge ELSE NUM_BITS]]

\* Iterations j, j + 1, ... of the digest loop (gadgets.rs 217-265).
RECURSIVE GenLoop(_, _, _, _, _, _, _, _)
GenLoop(g, j, build, comm_r_new, partition, challenges, bits_per_challenge, digests_per_partition) ==
    IF j >= digests_per_partition \/ g.result # "Ok" THEN g
    ELSE LET challenges_per_digest == CAPACITY \div bits_per_challenge
             digest_index == partition * digests_per_partition + j
             digest == DigestValue(comm_r_new, digest_index)
             digest_bits == allocated_num_to_allocated_bits(build, digest)
             last == j = digests_per_partition - 1
             underflow == last /\ challenges < Len(g.generated_bits)
             challenges_to_take ==
                 IF last
                 THEN IF underflow THEN NUM_BITS
                      ELSE challenges - Len(g.generated_bits)
                 ELSE challenges_per_digest
             g1 == [g EXCEPT !.digest_indices = Append(@, digest_index),
                             !.constraints = @ + 1,
                             !.hash2_calls = @ + 1]
         IN IF digest_bits.result # "Ok"
            THEN [g1 EXCEPT !.result = "panic", !.msg = digest_bits.msg]
            ELSE IF underflow /\ build = "debug"
            THEN [g1 EXCEPT !.result = "panic",
                            !.msg = "attempt to subtract with overflow"]
            ELSE GenLoop([g1 EXCEPT
                            !.constraints = @ + digest_bits.constraints,
                            !.generated_bits = @ \o
                                ChunksTaken(j, bits_per_challenge,
                                            challenges_to_take)],
                         j + 1, build, comm_r_new, partition, challenges,
                         bits_per_challenge, digests_per_partition)

gen_challenge_bits(build, comm_r_new, partition, challenges, bits_per_challenge) ==
    LET challenges_per_digest == CAPACITY \div bits_per_challenge
        digests_per_partition ==
            f32_ceil(f32_div(usize_as_f32(challenges),
                             usize_as_f32(challenges_per_digest)))
        g0 == [result |-> "Ok", msg |-> "", generated_bits |-> <<>>,
               digest_indices |-> <<>>, constraints |-> 0, hash2_calls |-> 0]
    IN  GenLoop(g0, 0, build, comm_r_new, partition, challenges,
                bits_per_challenge, digests_per_partition)

(***************************************************************************)
(* Constraints over allocated numbers.  A variable is <<name, index>>, a   *)
(* linear combination a sequence of [coeff, var] terms, a constraint the   *)
(* triple a * b = c, an assignment a function from variables to values.    *)
(***************************************************************************)
ONE == <<"one", 0>>

RECURSIVE EvalLC(_, _)
EvalLC(lc, asg) ==
    IF lc = <<>> THEN 0
    ELSE Head(lc).coeff * asg[Head(lc).var] + EvalLC(Tail(lc), asg)

Satisfied(con, asg) == EvalLC(con.a, asg) * EvalLC(con.b, asg) = EvalLC(con.c, asg)

Term(v) == <<[coeff |-> 1, var |-> v]>>

enforce(name, a, b, c) == [name |-> name, a |-> a, b |-> b, c |-> c]

(***************************************************************************)
(* get_challenge_high_bits                                                 *)
(***************************************************************************)
\* bellperson's pack_bits: the little-endian value of at most CAPACITY bits,
\* allocated as `out` and tied to the bits by one packing constraint.
pack_bits(out, bit_vars, bit_vals) ==
    LET n == IF Len(bit_vals) < CAPACITY THEN Len(bit_vals) ELSE CAPACITY
    IN  [value |-> LEValue(SubSeq(bit_vals, 1, n)),
         con |-> enforce("packing constraint",
                         [i \in 1..n |-> [coeff |-> Pow2(i - 1), var |-> bit_vars[i]]],
                         Term(ONE), Term(out))]

LowSlice(c_bits, h) == SubSeq(c_bits, 1, h)

\* &c_bits_boolean[c_bit_len - h..]
HighSlice(c_bits, h) == SubSeq(c_bits, Len(c_bits) - h + 1, Len(c_bits))

\* Positions k, k + 1, ... of the zip of hs and h_select_bits
\* (gadgets.rs 301-332).
RECURSIVE HighLoop(_, _, _, _, _)
HighLoop(hb, k, c_bits, h_select_bits, hs) ==
    IF k > Len(hs) \/ k > Len(h_select_bits) \/ hb.result # "Ok" THEN hb
    ELSE LET h == hs[k]
             c_vars == [i \in 1..Len(c_bits) |-> <<"c_bit", i>>]
         IN IF h > Len(c_bits)
            THEN [hb EXCEPT !.result = "panic",
                            !.msg = "slice start index out of range"]
            ELSE LET c_high == pack_bits(<<"c_high", k>>, HighSlice(c_vars, h),
                                         HighSlice(c_bits, h))
                     c_high_or_zero ==
                         IF h_select_bits[k] = 1 THEN c_high.value ELSE 0
                 IN HighLoop(
                      [hb EXCEPT
                         !.asg = [v \in DOMAIN @ \cup {<<"c_high", k>>,
                                                       <<"c_high_or_zero", k>>} |->
                                    IF v = <<"c_high", k>> THEN c_high.value
                                    ELSE IF v = <<"c_high_or_zero", k>>
                                    THEN c_high_or_zero ELSE @[v]],
                         !.cs = @ \o <<c_high.con,
                                  enforce("c_high_or_zero == c_high * h_select_bit",
                                          Term(<<"c_high", k>>),
                                          Term(<<"h_select_bit", k>>),
                                          Term(<<"c_high_or_zero", k>>))>>,
                         !.c_high_and_zeros = Append(@, c_high_or_zero)],
                      k + 1, c_bits, h_select_bits, hs)

RECURSIVE SumSeq(_)
SumSeq(xs) == IF xs = <<>> THEN 0 ELSE Head(xs) + SumSeq(Tail(xs))

get_challenge_high_bits(c_bits, h_select_bits, hs) ==
    LET inputs == [v \in {ONE} \cup {<<"c_bit", i>> : i \in 1..Len(c_bits)}
                         \cup {<<"h_select_bit", k>> : k \in 1..Len(h_select_bits)} |->
                     IF v = ONE THEN 1
                     ELSE IF v[1] = "c_bit" THEN c_bits[v[2]]
                     ELSE h_select_bits[v[2]]]
        hb0 == [result |-> "Ok", msg |-> "", value |-> 0, asg |-> inputs,
                cs |-> <<>>, c_high_and_zeros |-> <<>>]
    IN  IF Len(h_select_bits) # Len(hs)
        THEN [hb0 EXCEPT !.result = "panic",
                         !.msg = "assertion failed: h_select_bits.len() == hs.len()"]
        ELSE LET hb == HighLoop(hb0, 1, c_bits, h_select_bits, hs) IN
          IF hb.result # "Ok" THEN hb
          ELSE IF hb.c_high_and_zeros = <<>>
          THEN [hb EXCEPT !.result = "panic", !.msg = "index out of bounds"]
          ELSE LET sum == SumSeq(hb.c_high_and_zeros) IN
            [hb EXCEPT
               !.value = sum,
               !.asg = [v \in DOMAIN @ \cup {<<"c_high_selected", 0>>} |->
                          IF v = <<"c_high_selected", 0>> THEN sum ELSE @[v]],
               !.cs = Append(@,
                        enforce("c_high_selected == dot(c_highs, h_select_bits)",
                                [k \in 1..Len(hs) |->
                                    [coeff |-> 1, var |-> <<"c_high_or_zero", k>>]],
                                Term(ONE), Term(<<"c_high_selected", 0>>)))]

(***************************************************************************)
(* label_r_new                                                             *)
(***************************************************************************)
label_r_new_sum(label_r_old, label_d_new, rho) ==
    LET label_d_new_rho == label_d_new + rho
        value == label_r_old + label_d_new_rho
    IN  [result |-> "Ok", value |-> value,
         asg |-> [v \in {ONE, <<"label_r_old", 0>>, <<"label_d_new", 0>>,
                         <<"rho", 0>>, <<"label_d_new * rho", 0>>,
                         <<"label_r_new", 0>>} |->
                    IF v = ONE THEN 1
                    ELSE IF v[1] = "label_r_old" THEN label_r_old
                    ELSE IF v[1] = "label_d_new" THEN label_d_new
                    ELSE IF v[1] = "rho" THEN rho
                    ELSE IF v[1] = "label_d_new * rho" THEN label_d_new_rho
                    ELSE value],
         cs |-> <<enforce("mul constraint", Term(<<"label_d_new", 0>>),
                          Term(<<"rho", 0>>), Term(<<"label_d_new * rho", 0>>)),
                  enforce("label_r_new == label_r_old + label_d_new * rho",
                          Term(<<"label_r_old", 0>>)
                            \o Term(<<"label_d_new * rho", 0>>),
                          Term(ONE), Term(<<"label_r_new", 0>>))>>]

label_r_new(label_r_old, label_d_new, rho) ==
    LET label_d_new_rho == label_d_new * rho
        value == label_r_old + label_d_new_rho
    IN  [result |-> "Ok", value |-> value,
         asg |-> [v \in {ONE, <<"label_r_old", 0>>, <<"label_d_new", 0>>,
                         <<"rho", 0>>, <<"label_d_new * rho", 0>>,
                         <<"label_r_new", 0>>} |->
                    IF v = ONE THEN 1
                    ELSE IF v[1] = "label_r_old" THEN label_r_old
                    ELSE IF v[1] = "label_d_new" THEN label_d_new
                    ELSE IF v[1] = "rho" THEN rho
                    ELSE IF v[1] = "label_d_new * rho" THEN label_d_new_rho
                    ELSE value],
         cs |-> <<enforce("mul constraint", Term(<<"label_d_new", 0>>),
                          Term(<<"rho", 0>>), Term(<<"label_d_new * rho", 0>>)),
                  enforce("label_r_new == label_r_old + label_d_new * rho",
                          Term(<<"label_r_old", 0>>)
                            \o Term(<<"label_d_new * rho", 0>>),
                          Term(ONE), Term(<<"label_r_new", 0>>))>>]

(***************************************************************************)
(* por_no_challenge_input                                                  *)
(***************************************************************************)
RECURSIVE take_while_count(_, _)
take_while_count(path_values, len) ==
    IF path_values = <<>> \/ Len(Head(path_values)) # len THEN 0
    ELSE 1 + take_while_count(Tail(path_values), len)

Panic(st, m) == [st EXCEPT !.status = "panic", !.msg = m]

PorLevelNoHeight(st, kind, arity, bit_len) ==
    IF st.status # "run" THEN st
    ELSE IF st.path_values = <<>> THEN Panic(st, "no path elements remaining")
    ELSE LET siblings == Head(st.path_values) IN
      IF Len(siblings) # arity - 1
      THEN Panic(st, "path element has incorrect number of siblings")
      ELSE IF Len(st.c_bits) < bit_len
      THEN Panic(st, "no challenge bits remaining")
      ELSE LET insert_index == SubSeq(st.c_bits, 1, bit_len)
               preimg == insert(st.cur, insert_index, siblings)
           IN [st EXCEPT
                 !.path_values = Tail(@),
                 !.c_bits = Drop(@, bit_len),
                 !.cur = hash_multi_leaf_circuit(preimg, 0),
                 !.height = IF kind = "top" THEN @ ELSE @ + 1,
                 !.inserts = @ + 1,
                 !.hashes = @ + 1,
                 !.levels = Append(@, [kind |-> kind, arity |-> arity,
                                       height |-> st.height,
                                       index |-> LEValue(insert_index)])]

\* One level of the walk (gadgets.rs 76-94, 99-117, 122-139): next path
\* element, sibling-count assertion, log2(arity) challenge bits, insert, hash.
PorLevel(st, kind, arity, bit_len) ==
    IF st.status # "run" THEN st
    ELSE IF st.path_values = <<>> THEN Panic(st, "no path elements remaining")
    ELSE LET siblings == Head(st.path_values) IN
      IF Len(siblings) # arity - 1
      THEN Panic(st, "path element has incorrect number of siblings")
      ELSE IF Len(st.c_bits) < bit_len
      THEN Panic(st, "no challenge bits remaining")
      ELSE LET insert_index == SubSeq(st.c_bits, 1, bit_len)
               preimg == insert(st.cur, insert_index, siblings)
           IN [st EXCEPT
                 !.path_values = Tail(@),
                 !.c_bits = Drop(@, bit_len),
                 !.cur = hash_multi_leaf_circuit(preimg, st.height),
                 !.height = IF kind = "top" THEN @ ELSE @ + 1,
                 !.inserts = @ + 1,
                 !.hashes = @ + 1,
                 !.levels = Append(@, [kind |-> kind, arity |-> arity,
                                       height |-> st.height,
                                       index |-> LEValue(insert_index)])]

RECURSIVE PorBaseLoop(_, _, _, _)
PorBaseLoop(st, k, base_arity, base_arity_bit_len) ==
    IF k = 0 THEN st
    ELSE PorBaseLoop(PorLevel(st, "base", base_arity, base_arity_bit_len),
                     k - 1, base_arity, base_arity_bit_len)

PorFinishNoCheck(st, root) ==
    IF st.status # "run" THEN st
    ELSE [st EXCEPT !.status = "ok",
                    !.cs = Append(@, [name |-> "calculated root == provided root",
                                      a |-> st.cur, c |-> root])]

PorFinish(st, root) ==
    IF st.status # "run" THEN st
    ELSE IF st.c_bits # <<>>
    THEN Panic(st, "challenge bit-length and tree arity do not agree")
    ELSE [st EXCEPT !.status = "ok",
                    !.cs = Append(@, [name |-> "calculated root == provided root",
                                      a |-> st.cur, c |-> root])]

por_no_challenge_input(Tree, c_bits, leaf, path_values, root) ==
    LET base_arity == Tree.base
        sub_arity == Tree.sub
        top_arity == Tree.top
        base_arity_bit_len == trailing_zeros(base_arity)
        sub_arity_bit_len == trailing_zeros(sub_arity)
        top_arity_bit_len == trailing_zeros(top_arity)
        base_path_len == take_while_count(path_values, base_arity - 1)
        st0 == [status |-> "run", msg |-> "", cur |-> leaf, height |-> 0,
                path_values |-> path_values, c_bits |-> c_bits,
                inserts |-> 0, hashes |-> 0, levels |-> <<>>, cs |-> <<>>]
        st1 == PorBaseLoop(st0, base_path_len, base_arity, base_arity_bit_len)
        st2 == IF sub_arity > 0
               THEN PorLevel(st1, "sub", sub_arity, sub_arity_bit_len) ELSE st1
        st3 == IF top_arity > 0
               THEN PorLevel(st2, "top", top_arity, top_arity_bit_len) ELSE st2
    IN  PorFinish(st3, root)

PorResult(st) ==
    [result |-> IF st.status = "ok" THEN "Ok" ELSE "panic",
     msg |-> st.msg,
     enforced |-> st.status = "ok",
     computed_root |-> st.cur,
     path_left |-> Len(st.path_values),
     bits_left |-> Len(st.c_bits),
     inserts |-> st.inserts,
     hashes |-> st.hashes,
     levels |-> st.levels,
     cs |-> st.cs]

(***************************************************************************)
(* apex_por                                                                *)
(***************************************************************************)
\* crate::constants::TreeD: the binary tree of the data commitment.
TreeD == [base |-> 2, sub |-> 0, top |-> 0]

ApexRowSwapped(ap) ==
    IF ap.status # "run" THEN ap
    ELSE LET last == ap.apex_tree[Len(ap.apex_tree)]
             chunks == (Len(last) + 1) \div 2
         IN IF Len(last) % 2 = 1
            THEN [ap EXCEPT !.status = "panic", !.msg = "index out of bounds",
                            !.hash2_calls = @ + chunks - 1]
            ELSE [ap EXCEPT
                    !.apex_tree = Append(@,
                        [i \in 1..chunks |->
                            hash2_circuit(last[2 * i], last[2 * i - 1])]),
                    !.hash2_calls = @ + chunks,
                    !.rounds = @ + 1]

\* One iteration of the row loop (gadgets.rs 168-187): chunks(2) of the last
\* row, each chunk hashed as hash2(siblings[0], siblings[1]).
ApexRow(ap) ==
    IF ap.status # "run" THEN ap
    ELSE LET last == ap.apex_tree[Len(ap.apex_tree)]
             chunks == (Len(last) + 1) \div 2
         IN IF Len(last) % 2 = 1
            THEN [ap EXCEPT !.status = "panic", !.msg = "index out of bounds",
                            !.hash2_calls = @ + chunks - 1]
            ELSE [ap EXCEPT
                    !.apex_tree = Append(@,
                        [i \in 1..chunks |->
                            hash2_circuit(last[2 * i - 1], last[2 * i])]),
                    !.hash2_calls = @ + chunks,
                    !.rounds = @ + 1]

\* k iterations of the row loop.  A panic ends the loop; over an empty row
\* every remaining iteration pushes one more empty row and hashes nothing.
RECURSIVE ApexRows(_, _)
ApexRows(ap, k) ==
    IF k = 0 \/ ap.status # "run" THEN ap
    ELSE IF ap.apex_tree[Len(ap.apex_tree)] = <<>>
    THEN [ap EXCEPT !.apex_tree = @ \o [i \in 1..k |-> <<>>], !.rounds = @ + k]
    ELSE ApexRows(ApexRow(ap), k - 1)

apex_por(apex_leafs, partition_bits, partition_path, comm_d) ==
    LET apex_height == trailing_zeros(Len(apex_leafs))
        ap0 == [status |-> "run", msg |-> "", apex_tree |-> <<apex_leafs>>,
                hash2_calls |-> 0, rounds |-> 0]
        ap == ApexRows(ap0, apex_height)
        last == ap.apex_tree[Len(ap.apex_tree)]
        none == [result |-> "panic", msg |-> ap.msg, rounds |-> ap.rounds,
                 hash2_calls |-> ap.hash2_calls, apex_tree |-> ap.apex_tree,
                 por_called |-> FALSE, por_args |-> <<>>, por |-> <<>>]
    IN  IF ap.status # "run" THEN none
        ELSE IF last = <<>> THEN [none EXCEPT !.msg = "index out of bounds"]
        ELSE LET partition_label == last[1]
                 st == por_no_challenge_input(TreeD, partition_bits,
                           partition_label, partition_path, comm_d)
             IN [result |-> IF st.status = "ok" THEN "Ok" ELSE "panic",
                 msg |-> st.msg, rounds |-> ap.rounds,
                 hash2_calls |-> ap.hash2_calls, apex_tree |-> ap.apex_tree,
                 por_called |-> TRUE,
                 por_args |-> [Tree |-> TreeD, c_bits |-> partition_bits,
                               leaf |-> partition_label,
                               path_values |-> partition_path, root |-> comm_d],
                 por |-> PorResult(st)]

(***************************************************************************)
(* Inputs of por_no_challenge_input: every valid tree shape over Arities,  *)
(* with (a) the paths and challenges that match the shape and their valid  *)
(* root, and (b) paths of groups of 1 to 3 siblings with challenges of any *)
(* length.                                                                 *)
(***************************************************************************)
Shapes ==
    {sh \in [base : Arities, sub : Arities \cup {0}, top : Arities \cup {0}] :
        sh.top > 0 => sh.sub > 0}

Vals == {V(0), V(1)}

\* The sibling values of a path: all equal to one of Vals, or alternating.
SiblingPatterns == {"zeros", "ones", "mixed"}

SiblingAt(pat, i, j) ==
    IF pat = "zeros" THEN V(0) ELSE IF pat = "ones" THEN V(1) ELSE V((i + j) % 2)

RECURSIVE Log2(_)
Log2(a) == IF a <= 1 THEN 0 ELSE 1 + Log2(a \div 2)

\* The arities of the levels of a tree of shape sh with n base levels.
LevelArities(sh, n) ==
    [i \in 1..n |-> sh.base]
      \o (IF sh.sub > 0 THEN <<sh.sub>> ELSE <<>>)
      \o (IF sh.top > 0 THEN <<sh.top>> ELSE <<>>)

RECURSIVE SumLog2(_)
SumLog2(arities) ==
    IF arities = <<>> THEN 0 ELSE Log2(Head(arities)) + SumLog2(Tail(arities))

PathsFor(arities) ==
    {[i \in 1..Len(arities) |->
        [j \in 1..(arities[i] - 1) |-> SiblingAt(pat, i, j)]] :
            pat \in SiblingPatterns}

InsertAt(cur, idx, sibs) ==
    [i \in 1..(Len(sibs) + 1) |->
        IF i <= idx THEN sibs[i] ELSE IF i = idx + 1 THEN cur ELSE sibs[i - 1]]

\* The reference fold over a path whose levels have the given arities: the
\* sequence of nodes, the leaf first and the root last.
RECURSIVE RefNodes(_, _, _, _, _)
RefNodes(cur, height, arities, bits, path) ==
    IF arities = <<>> THEN <<cur>>
    ELSE LET b == Log2(Head(arities))
             idx == LEValue(SubSeq(bits, 1, b))
             list == InsertAt(cur, idx, Head(path))
             nxt == [tag |-> "hash_multi_leaf", n |-> height, kids |-> list]
         IN <<cur>> \o RefNodes(nxt, height + 1, Tail(arities),
                                Drop(bits, b), Tail(path))

RefRoot(leaf, arities, bits, path) ==
    LET nodes == RefNodes(leaf, 0, arities, bits, path) IN nodes[Len(nodes)]

WellFormedPorInputs ==
    UNION {
      LET ar == LevelArities(sh, n) IN
        {[Tree |-> sh, c_bits |-> b, leaf |-> l, path_values |-> p,
          root |-> RefRoot(l, ar, b, p)] :
            b \in SeqsOfLen({0, 1}, SumLog2(ar)), l \in Vals, p \in PathsFor(ar)}
      : sh \in Shapes, n \in 0..MaxBaseLevels}

RECURSIVE PathsUpTo(_)
PathsUpTo(k) ==
    IF k = 0 THEN {<<>>}
    ELSE LET shorter == PathsUpTo(k - 1) IN
         shorter \cup {Append(p, [i \in 1..len |-> V(0)]) :
                          p \in {q \in shorter : Len(q) = k - 1}, len \in 1..3}

ArbitraryPorInputs ==
    {[Tree |-> sh, c_bits |-> [i \in 1..nb |-> 0], leaf |-> V(0),
      path_values |-> p, root |-> V(0)] :
        sh \in Shapes, nb \in 0..MaxBits, p \in PathsUpTo(MaxPathLen)}

PorInputs == WellFormedPorInputs \cup ArbitraryPorInputs

(***************************************************************************)
(* Inputs of apex_por: leaf batches of every length up to MaxApexLen, with *)
(* partition paths of zero or one level of TreeD, a challenge that matches *)
(* or is one bit short, and the valid or another comm_d.                   *)
(***************************************************************************)
IsPow2(n) == n > 0 /\ Pow2(Log2(n)) = n

\* The native reduction of a batch of 2^k leaves: the root of the perfect
\* binary tree over them.
RECURSIVE NativeReduce(_)
NativeReduce(leaves) ==
    IF Len(leaves) = 1 THEN leaves[1]
    ELSE LET half == Len(leaves) \div 2
         IN [tag |-> "hash2", n |-> 0,
             kids |-> <<NativeReduce(SubSeq(leaves, 1, half)),
                        NativeReduce(SubSeq(leaves, half + 1, Len(leaves)))>>]

PartitionProofs ==
    {[c_bits |-> <<>>, path_values |-> <<>>]}
      \cup {[c_bits |-> <<b>>, path_values |-> <<<<v>>>>] : b \in {0, 1}, v \in Vals}
      \cup {[c_bits |-> <<>>, path_values |-> <<<<V(0)>>>>]}

\* Batches of distinct leaves, of equal leaves and of alternating leaves.
ApexBatches ==
    UNION {{[i \in 1..n |-> V(i)], [i \in 1..n |-> V(0)], [i \in 1..n |-> V(i % 2)]} :
              n \in 0..MaxApexLen}

ApexInputs ==
    UNION {
      {[apex_leafs |-> l, partition_bits |-> pp.c_bits,
        partition_path |-> pp.path_values, comm_d |-> d] :
          d \in {V(0)} \cup
                (IF IsPow2(Len(l)) /\ Len(pp.c_bits) = Len(pp.path_values)
                 THEN {RefRoot(NativeReduce(l), [i \in 1..Len(pp.path_values) |-> 2],
                               pp.c_bits, pp.path_values)}
                 ELSE {})}
      : l \in ApexBatches, pp \in PartitionProofs}

(***************************************************************************)
(* Inputs of allocated_num_to_allocated_bits and gen_challenge_bits.       *)
(***************************************************************************)
BitSamples == {0, 1, 63, 64, 65, 128, 254}

BitsInputs ==
    {[build |-> b, num |-> x] :
        b \in Builds,
        x \in {y \in SUBSET BitSamples : Cardinality(y) <= MaxSetBits}}

\* Bit counts between 1 and CAPACITY, around the divisors of CAPACITY and of
\* NUM_BITS.
BitsPerChallenge == {1, 2, 3, 10, 50, 63, 64, 84, 85, 126, 127, 128, 200, 253, 254}

GenInputs ==
    [build : Builds, comm_r_new : {1}, partition : 0..MaxPartition,
     challenges : 0..MaxChallenges, bits_per_challenge : BitsPerChallenge]

(***************************************************************************)
(* Inputs of get_challenge_high_bits and label_r_new.                      *)
(***************************************************************************)
IsIncreasing(h) == \A i \in 1..(Len(h) - 1) : h[i] < h[i + 1]

\* Challenges of up to MaxCBits bits, up to MaxHs increasing heights (one of
\* which may exceed the challenge length) and every selector of that length
\* or one too long.
HighInputs ==
    UNION {
      {[c_bits |-> c, h_select_bits |-> sel, hs |-> h] :
          h \in {x \in SeqsOfLen(0..(Len(c) + 1), n) : IsIncreasing(x)},
          sel \in SeqsOfLen({0, 1}, n) \cup {[i \in 1..(n + 1) |-> 0]}}
      : c \in UNION {SeqsOfLen({0, 1}, len) : len \in 0..MaxCBits},
        n \in 0..MaxHs}

\* Field elements near zero on both sides: k stands for k mod r.
LabelInputs ==
    [label_r_old : (0 - MaxFr)..MaxFr, label_d_new : (0 - MaxFr)..MaxFr,
     rho : (0 - MaxFr)..MaxFr]

(***************************************************************************)
(* The state machine: the caller invokes one gadget at a time.             *)
(***************************************************************************)
Init == op = "idle" /\ args = <<>> /\ ret = <<>>

CallPor ==
    /\ op = "idle"
    /\ \E inp \in PorInputs :
         /\ args' = inp
         /\ ret' = PorResult(por_no_challenge_input(inp.Tree, inp.c_bits,
                                 inp.leaf, inp.path_values, inp.root))
    /\ op' = "por_no_challenge_input"

Return ==
    /\ op # "idle"
    /\ op' = "idle" /\ args' = <<>> /\ ret' = <<>>

CallApex ==
    /\ op = "idle"
    /\ \E inp \in ApexInputs :
         /\ args' = inp
         /\ ret' = apex_por(inp.apex_leafs, inp.partition_bits,
                            inp.partition_path, inp.comm_d)
    /\ op' = "apex_por"

CallBits ==
    /\ op = "idle"
    /\ \E inp \in BitsInputs :
         /\ args' = inp
         /\ ret' = allocated_num_to_allocated_bits(inp.build, inp.num)
    /\ op' = "allocated_num_to_allocated_bits"

CallGen ==
    /\ op = "idle"
    /\ \E inp \in GenInputs :
         /\ args' = inp
         /\ ret' = gen_challenge_bits(inp.build, inp.comm_r_new, inp.partition,
                                      inp.challenges, inp.bits_per_challenge)
    /\ op' = "gen_challenge_bits"

CallHigh ==
    /\ op = "idle"
    /\ \E inp \in HighInputs :
         /\ args' = inp
         /\ ret' = get_challenge_high_bits(inp.c_bits, inp.h_select_bits, inp.hs)
    /\ op' = "get_challenge_high_bits"

CallLabel ==
    /\ op = "idle"
    /\ \E inp \in LabelInputs :
         /\ args' = inp
         /\ ret' = label_r_new(inp.label_r_old, inp.label_d_new, inp.rho)
    /\ op' = "label_r_new"

Next ==
    \/ CallPor \/ CallApex \/ CallBits \/ CallGen \/ CallHigh \/ CallLabel
    \/ Return

Spec == Init /\ [][Next]_vars

(***************************************************************************)
(* Properties of por_no_challenge_input.                                   *)
(***************************************************************************)
IsPor == op = "por_no_challenge_input"

\* The number of base levels of a path of the shape: its groups less the
\* sub and top group.
BaseLevelsOf(a) ==
    Len(a.path_values) - (IF a.Tree.sub > 0 THEN 1 ELSE 0)
                       - (IF a.Tree.top > 0 THEN 1 ELSE 0)

\* The path matches the shape: n >= 0 groups of base_arity - 1 siblings,
\* then the sub group, then the top group.
PathMatchesShape(a) ==
    /\ BaseLevelsOf(a) >= 0
    /\ LET ar == LevelArities(a.Tree, BaseLevelsOf(a)) IN
         \A i \in 1..Len(a.path_values) : Len(a.path_values[i]) = ar[i] - 1

WellFormedPor(a) ==
    /\ PathMatchesShape(a)
    /\ Len(a.c_bits) = SumLog2(LevelArities(a.Tree, BaseLevelsOf(a)))

ExpectedKinds(a) ==
    [i \in 1..BaseLevelsOf(a) |-> "base"]
      \o (IF a.Tree.sub > 0 THEN <<"sub">> ELSE <<>>)
      \o (IF a.Tree.top > 0 THEN <<"top">> ELSE <<>>)

\* C1 (as claimed): on every well-formed input, equal arities included, the
\* call raises no contract violation, walks n base levels, then the sub and
\* the top level, does one insert and one hash per path group, enforces the
\* root equality and returns Ok.
C1_SucceedsOnWellFormed ==
    (IsPor /\ WellFormedPor(args)) =>
        /\ ret.result = "Ok"
        /\ ret.enforced
        /\ ret.inserts = Len(args.path_values)
        /\ ret.hashes = Len(args.path_values)
        /\ [i \in 1..Len(ret.levels) |-> ret.levels[i].kind] = ExpectedKinds(args)

RefArities(a) == LevelArities(a.Tree, BaseLevelsOf(a))

RefRootOf(a) == RefRoot(a.leaf, RefArities(a), a.c_bits, a.path_values)

\* The root-equality constraint is enforced and satisfied by the call on a.
PorSat(a) ==
    LET st == por_no_challenge_input(a.Tree, a.c_bits, a.leaf,
                                     a.path_values, a.root)
    IN  st.status = "ok" /\ st.cs[1].a = st.cs[1].c

OtherVals(v) == (Vals \cup {V(2)}) \ {v}

SiblingChangesFail(a) ==
    \A i \in 1..Len(a.path_values) : \A j \in 1..Len(a.path_values[i]) :
        \A w \in OtherVals(a.path_values[i][j]) :
            ~PorSat([a EXCEPT !.path_values[i][j] = w])

LeafChangesFail(a) ==
    \A w \in OtherVals(a.leaf) : ~PorSat([a EXCEPT !.leaf = w])

RootChangesFail(a) ==
    \A w \in OtherVals(a.root) : ~PorSat([a EXCEPT !.root = w])

FlipBit(a, k) == [a EXCEPT !.c_bits[k] = 1 - @]

\* The level (1-based) whose insertion index holds challenge bit k, and the
\* number of bits before that level.
RECURSIVE LevelOfBit(_, _, _)
LevelOfBit(arities, k, lvl) ==
    IF k <= Log2(Head(arities)) THEN lvl
    ELSE LevelOfBit(Tail(arities), k - Log2(Head(arities)), lvl + 1)

BitsBefore(arities, lvl) == SumLog2(SubSeq(arities, 1, lvl - 1))

IndexAt(arities, bits, lvl) ==
    LEValue(SubSeq(bits, BitsBefore(arities, lvl) + 1,
                   BitsBefore(arities, lvl) + Log2(arities[lvl])))

\* Flipping bit k moves the node of its level only across siblings equal to
\* that node, so the hashed list is the same.
FlipKeepsPreimage(a, k) ==
    LET ar == RefArities(a)
        lvl == LevelOfBit(ar, k, 1)
        i1 == IndexAt(ar, a.c_bits, lvl)
        i2 == IndexAt(ar, FlipBit(a, k).c_bits, lvl)
        lo == IF i1 < i2 THEN i1 ELSE i2
        hi == IF i1 < i2 THEN i2 ELSE i1
        node == RefNodes(a.leaf, 0, ar, a.c_bits, a.path_values)[lvl]
    IN  \A j \in (lo + 1)..hi : a.path_values[lvl][j] = node

FoldIsReference(a, r) ==
    /\ r.computed_root = RefRootOf(a)
    /\ \A i \in 1..Len(r.levels) :
         /\ r.levels[i].height = i - 1
         /\ r.levels[i].index = IndexAt(RefArities(a), a.c_bits, i)
    /\ Len(r.levels) = Len(a.path_values)
    /\ (r.cs[1].a = r.cs[1].c) <=> (a.root = RefRootOf(a))

C6_PathFullyConsumed ==
    IsPor =>
        /\ ~PathMatchesShape(args) => ret.result = "panic"
        /\ ret.result = "Ok" => ret.path_left = 0

\* The challenge bits the walk demands: log2(arity) for every level walked.
BitsDemanded(a) ==
    take_while_count(a.path_values, a.Tree.base - 1) * Log2(a.Tree.base)
      + Log2(a.Tree.sub) + Log2(a.Tree.top)

RECURSIVE SumLevelBits(_)
SumLevelBits(levels) ==
    IF levels = <<>> THEN 0
    ELSE Log2(Head(levels).arity) + SumLevelBits(Tail(levels))

\* C10: a challenge with fewer or more bits than the walk demands aborts the
\* call before the root equality is enforced; whenever the root equality is
\* enforced every challenge bit has been consumed, once, by some level.
C10_ChallengeBitsExhausted ==
    IsPor =>
        /\ Len(args.c_bits) # BitsDemanded(args) =>
             ret.result = "panic" /\ ~ret.enforced /\ ret.cs = <<>>
        /\ ret.enforced =>
             /\ ret.bits_left = 0
             /\ SumLevelBits(ret.levels) = Len(args.c_bits)
             /\ Len(ret.cs) = 1

\* A call with one challenge bit too many, aborted by the final assertion.
C10_Witness ==
    /\ IsPor
    /\ ret.msg = "challenge bit-length and tree arity do not agree"
    /\ Len(args.c_bits) = BitsDemanded(args) + 1
    /\ ~ret.enforced

(***************************************************************************)
(* Properties of apex_por.                                                 *)
(***************************************************************************)
IsApex == op = "apex_por"

\* C5 (as claimed): a batch whose length is not a power of two aborts the
\* call, which never reaches the Merkle proof verifier.
C5_NonPowerOfTwoAborts ==
    (IsApex /\ ~IsPow2(Len(args.apex_leafs))) =>
        ret.result = "panic" /\ ~ret.por_called

\* C7: a batch of 2^k leaves is reduced in k rounds of adjacent pairs, with
\* 2^k - 1 two-input hashes; the result is the native reduction of the batch
\* and is the leaf handed to por_no_challenge_input, with the partition bits,
\* the partition path and comm_d as given.
C7_ApexReduction ==
    (IsApex /\ IsPow2(Len(args.apex_leafs))) =>
        LET len == Len(args.apex_leafs)
            k == Log2(len)
        IN /\ ret.rounds = k
           /\ Len(ret.apex_tree) = k + 1
           /\ ret.hash2_calls = len - 1
           /\ \A r \in 1..k :
                /\ Len(ret.apex_tree[r + 1]) * 2 = Len(ret.apex_tree[r])
                /\ \A i \in 1..Len(ret.apex_tree[r + 1]) :
                     ret.apex_tree[r + 1][i].kids =
                        <<ret.apex_tree[r][2 * i - 1], ret.apex_tree[r][2 * i]>>
           /\ ret.por_called
           /\ ret.por_args.leaf = NativeReduce(args.apex_leafs)
           /\ (k = 0 => ret.por_args.leaf = args.apex_leafs[1])
           /\ ret.por_args.c_bits = args.partition_bits
           /\ ret.por_args.path_values = args.partition_path
           /\ ret.por_args.root = args.comm_d
           /\ ret.result = ret.por.result

\* A batch of eight leaves, not all equal, verified against its commitment.
C7_Witness ==
    /\ IsApex
    /\ Len(args.apex_leafs) = 8
    /\ args.apex_leafs[1] # args.apex_leafs[2]
    /\ ret.rounds = 3
    /\ ret.result = "Ok"
    /\ ret.por.cs[1].a = ret.por.cs[1].c
    /\ Len(args.partition_path) = 1

(***************************************************************************)
(* Properties of allocated_num_to_allocated_bits and gen_challenge_bits.   *)
(***************************************************************************)
IsBits == op = "allocated_num_to_allocated_bits"

\* C3 (as claimed): the call returns NUM_BITS bits and enforces one linear
\* constraint whose coefficient on bit i is 2^i for every i below NUM_BITS,
\* so the weighted sum of the bits of any number is that number.
C3_BinaryDecomposition ==
    IsBits =>
        /\ ret.result = "Ok"
        /\ Len(ret.bits) = NUM_BITS
        /\ ret.constraints = 1
        /\ \A i \in 1..NUM_BITS : ret.lc[i] = i - 1
        /\ ret.lhs = ret.rhs
        /\ {i - 1 : i \in {k \in 1..NUM_BITS : ret.bits[k] = 1}} = args.num

IsGen == op = "gen_challenge_bits"

CeilDiv(a, b) == (a + b - 1) \div b

\* C4 (as claimed): exactly `challenges` groups of exactly bits_per_challenge
\* bits are returned; ceil(challenges / challenges_per_digest) digests are
\* hashed, digest j with index partition * digests_per_partition + j; group
\* i is chunk (i mod challenges_per_digest) of digest
\* floor(i / challenges_per_digest), below bit CAPACITY.
C4_ChallengeGroups ==
    IsGen =>
        LET bpc == args.bits_per_challenge
            cpd == CAPACITY \div bpc
            dpp == CeilDiv(args.challenges, cpd)
        IN /\ ret.result = "Ok"
           /\ Len(ret.generated_bits) = args.challenges
           /\ Len(ret.digest_indices) = dpp
           /\ \A j \in 1..Len(ret.digest_indices) :
                ret.digest_indices[j] = args.partition * dpp + (j - 1)
           /\ \A i \in 1..Len(ret.generated_bits) :
                LET grp == ret.generated_bits[i] IN
                  /\ grp.hi - grp.lo = bpc
                  /\ grp.digest = (i - 1) \div cpd
                  /\ grp.lo = ((i - 1) % cpd) * bpc
                  /\ grp.hi <= CAPACITY

(***************************************************************************)
(* Properties of get_challenge_high_bits and label_r_new.                  *)
(***************************************************************************)
IsHigh == op = "get_challenge_high_bits"

OneHotAt(sel, i) == \A k \in 1..Len(sel) : sel[k] = (IF k = i THEN 1 ELSE 0)

\* The value of the top h bits of the challenge.
TopBits(c_bits, h) == LEValue(c_bits) \div Pow2(Len(c_bits) - h)

ValidHighInput(a) ==
    /\ Len(a.hs) = Len(a.h_select_bits)
    /\ Len(a.hs) > 0
    /\ \A k \in 1..Len(a.hs) : a.hs[k] <= Len(a.c_bits)

\* C8: with a selector that is one-hot at i the call returns the value of
\* the top hs[i] bits of the challenge, floor(c / 2^(L - hs[i])); the value
\* it allocates is the sum of (top hs[k] bits * selector bit k), and the
\* constraints it adds, one product per position and one sum, hold of it.
C8_HighBitsSelected ==
    (IsHigh /\ ValidHighInput(args)) =>
        /\ ret.result = "Ok"
        /\ \A i \in 1..Len(args.hs) :
             OneHotAt(args.h_select_bits, i) =>
                ret.value = TopBits(args.c_bits, args.hs[i])
        /\ ret.value = SumSeq([k \in 1..Len(args.hs) |->
                          TopBits(args.c_bits, args.hs[k]) * args.h_select_bits[k]])
        /\ ret.asg[<<"c_high_selected", 0>>] = ret.value
        /\ Cardinality({n \in 1..Len(ret.cs) :
              ret.cs[n].name = "c_high_or_zero == c_high * h_select_bit"})
             = Len(args.hs)
        /\ Cardinality({n \in 1..Len(ret.cs) :
              ret.cs[n].name = "c_high_selected == dot(c_highs, h_select_bits)"})
             = 1
        /\ Len(ret.cs) = 2 * Len(args.hs) + 1
        /\ \A n \in 1..Len(ret.cs) : Satisfied(ret.cs[n], ret.asg)

\* A one-hot selection of a proper, non-zero part of a challenge.
C8_Witness ==
    /\ IsHigh /\ ValidHighInput(args)
    /\ Len(args.hs) = 2 /\ Len(args.c_bits) = 3
    /\ OneHotAt(args.h_select_bits, 1)
    /\ args.hs[1] = 2 /\ args.hs[2] = 3
    /\ ret.value = 3
    /\ LEValue(args.c_bits) = 6

IsLabel == op = "label_r_new"

\* The values tried for the two allocated variables.
LabelWindow ==
    (0 - (MaxFr * MaxFr + MaxFr + 1))..(MaxFr * MaxFr + MaxFr + 1)

\* C9: the returned number is label_r_old + label_d_new * rho; the call adds
\* two constraints, the product label_d_new * rho and the linear equality
\* label_r_old + product = label_r_new, which hold only of that value, and
\* the three inputs keep their values.
C9_LabelUpdate ==
    IsLabel =>
        LET expected == args.label_r_old + args.label_d_new * args.rho IN
        /\ ret.result = "Ok"
        /\ ret.value = expected
        /\ ret.asg[<<"label_r_new", 0>>] = expected
        /\ Len(ret.cs) = 2
        /\ ret.cs[1].a = Term(<<"label_d_new", 0>>)
        /\ ret.cs[1].b = Term(<<"rho", 0>>)
        /\ ret.cs[2].b = Term(ONE)
        /\ ret.cs[2].c = Term(<<"label_r_new", 0>>)
        /\ ret.asg[<<"label_r_old", 0>>] = args.label_r_old
        /\ ret.asg[<<"label_d_new", 0>>] = args.label_d_new
        /\ ret.asg[<<"rho", 0>>] = args.rho
        /\ \A n \in 1..2 : Satisfied(ret.cs[n], ret.asg)
        /\ \A p \in LabelWindow, o \in LabelWindow :
             LET asg == [ret.asg EXCEPT ![<<"label_d_new * rho", 0>>] = p,
                                        ![<<"label_r_new", 0>>] = o]
             IN (\A n \in 1..2 : Satisfied(ret.cs[n], asg)) <=>
                    (p = args.label_d_new * args.rho /\ o = expected)

\* An update in which the product is not the sum and the result wraps below
\* zero (a field element near r).
C9_Witness ==
    /\ IsLabel
    /\ args.label_r_old = 1 /\ args.label_d_new = 2 /\ args.rho = 0 - 2
    /\ ret.value = 0 - 3

====
